---- MODULE Spec2Model ----
(***************************************************************************)
(* A model of KubernetesMonitor (src/main.py): the endpoint resolver       *)
(* (get_prometheus_url, connect_prometheus, setup_environment), the        *)
(* convergence check (check_deployment_status, deploy_application) and the *)
(* metrics aggregator (get_prometheus_metrics).                            *)
(*                                                                         *)
(* Every external call (subprocess.run, the kubernetes client, the         *)
(* Prometheus client, file I/O) is an input of the operation that makes    *)
(* it: the environment chooses its outcome.  A method is an operator from  *)
(* the outcomes of the calls it makes to its result, the calls it made and *)
(* the fields of self it assigns; an action applies the operator to one    *)
(* choice of outcomes.                                                     *)
(*                                                                         *)
(* Python values: None and a missing key are the empty sequence <<>>, a    *)
(* present value v is <<v>>; a string that the code takes apart is the     *)
(* sequence of its tokens; a dict is a function on its keys.               *)
(***************************************************************************)
EXTENDS Integers, Sequences, FiniteSets, TLC

VARIABLES
    prometheus,  \* self.prometheus: <<>> (None) or <<url>>, a handle on url
    k8s_config,  \* self.k8s_config is set (not None)
    last,        \* the operation last run: its name (op), the outcomes of the
                 \* calls it made (env), the calls in order (calls), what it
                 \* returned (result) and what it reported
    polls,       \* status polls made: runs of the kubectl get deployment query
    converged,   \* some poll so far observed readyReplicas = replicas
    lookups      \* service and node address lookups made by the status checks

vars == <<prometheus, k8s_config, last, polls, converged, lookups>>

-----------------------------------------------------------------------------
(* Bounds *)

\* The longest service list list_namespaced_service returns.
MaxServices == 2

\* The largest replica count a deployment declares or reports ready.
MaxReplicas == 1

\* The number of status polls (runs of check_deployment_status) in a run.
MaxPolls == 3

-----------------------------------------------------------------------------
(* Python plumbing *)

\* The outcome of a call or of a try block: a value returned or an exception.
Return(v) == [raised |-> FALSE, value |-> <<v>>]

Raise == [raised |-> TRUE, value |-> <<>>]

\* Optional values over S: absent (None, a missing key) or present.
Opt(S) == {<<>>} \cup {<<v>> : v \in S}

\* The sequences over S of length at most n.
SeqUpTo(S, n) == UNION {[1..k -> S] : k \in 0..n}

\* The number of times call c occurs in the call trace cs.
Count(c, cs) == Cardinality({i \in DOMAIN cs : cs[i] = c})

Whitespace == {" ", "\n"}

RECURSIVE LStrip(_)
LStrip(s) ==
    IF s # <<>> /\ Head(s) \in Whitespace THEN LStrip(Tail(s)) ELSE s

RECURSIVE RStrip(_)
RStrip(s) ==
    IF s # <<>> /\ s[Len(s)] \in Whitespace
    THEN RStrip(SubSeq(s, 1, Len(s) - 1))
    ELSE s

\* str.strip(): leading and trailing whitespace removed.
Strip(s) == RStrip(LStrip(s))

-----------------------------------------------------------------------------
(* Endpoint resolver: get_minikube_ip, get_prometheus_url *)

\* A port entry without a node port: node_port is None (or 0), which
\* `if port:` takes as false.
NoNodePort == 0

NodePorts == {30090, 30091}

\* The ports of a listed service (svc.spec.ports), each its node_port.
ServicePorts ==
    {<<>>, <<NoNodePort, 30090>>, <<30090>>, <<30091, NoNodePort>>}

Services == [ports : ServicePorts]

\* v1.list_namespaced_service(...): raises, or returns services.items.
Listings ==
    {[raises |-> TRUE, items |-> <<>>]}
        \cup [raises : {FALSE}, items : SeqUpTo(Services, MaxServices)]

\* subprocess.run(['minikube', 'ip']): raises, or completes with stdout.
IpRuns ==
    {[raises |-> TRUE, stdout |-> <<>>],
     [raises |-> FALSE, stdout |-> <<"10.0.0.7", "\n">>],
     [raises |-> FALSE, stdout |-> <<>>]}

Url(host, port) == [scheme |-> "http", host |-> host, port |-> port]

FallbackUrl == Url(<<"localhost">>, 9090)

get_minikube_ip(run) ==
    IF run.raises THEN <<"192.168.49.2">> ELSE Strip(run.stdout)

\* `if svc.spec.ports:` and `if port:` for port = svc.spec.ports[0].node_port
HasNodePort(svc) == svc.ports # <<>> /\ svc.ports[1] # NoNodePort

\* The for loop over services.items from index i on: the index of the first
\* service the loop returns from, or 0 when it runs to its end.
RECURSIVE FirstWithNodePort(_, _)
FirstWithNodePort(items, i) ==
    IF i > Len(items) THEN 0
    ELSE IF HasNodePort(items[i]) THEN i
    ELSE FirstWithNodePort(items, i + 1)

\* The loop as a bug would have it: only the first listed service is looked at.
FirstServiceOnly(items, i) ==
    IF i <= Len(items) /\ HasNodePort(items[i]) THEN i ELSE 0

\* The service get_prometheus_url resolves from.
ResolvingService(items, i) == FirstWithNodePort(items, i)

\* The try block of get_prometheus_url.
get_prometheus_url_try(env) ==
    IF env.urlkube
    THEN [result |-> Raise, calls |-> <<"load_kube_config">>]
    ELSE IF env.listing.raises
    THEN [result |-> Raise,
          calls |-> <<"load_kube_config", "list_namespaced_service">>]
    ELSE LET items == env.listing.items
             i == ResolvingService(items, 1)
         IN  IF i = 0
             THEN [result |-> Return(FallbackUrl),
                   calls |-> <<"load_kube_config",
                               "list_namespaced_service">>]
             ELSE [result |->
                       Return(Url(get_minikube_ip(env.ip), items[i].ports[1])),
                   calls |-> <<"load_kube_config",
                               "list_namespaced_service", "url/minikube ip">>]

\* get_prometheus_url without its except clause.
get_prometheus_url_noexcept(env) == get_prometheus_url_try(env)

get_prometheus_url(env) ==
    LET r == get_prometheus_url_try(env)
    IN  IF r.result.raised
        THEN [r EXCEPT !.result = Return(FallbackUrl)]
        ELSE r

-----------------------------------------------------------------------------
(* The calls get_prometheus_url makes *)

\* The outcomes of the calls get_prometheus_url can make; urlkube says
\* whether config.load_kube_config() raises.
UrlOutcomes == [urlkube : BOOLEAN, listing : Listings, ip : IpRuns]

\* An environment is the outcomes of the calls that are made: the outcome of
\* a call that is not in the trace cs is fixed.
UrlMade(env, cs) ==
    /\ Count("list_namespaced_service", cs) = 0 =>
           env.listing = [raises |-> TRUE, items |-> <<>>]
    /\ Count("url/minikube ip", cs) = 0 =>
           env.ip = [raises |-> TRUE, stdout |-> <<>>]

UrlEnvs ==
    {e : e \in {env \in UrlOutcomes :
                    UrlMade(env, get_prometheus_url_try(env).calls)}}

\* What self.get_prometheus_url() can give its caller.
UrlResults == {get_prometheus_url(env).result : env \in UrlEnvs}

-----------------------------------------------------------------------------
(* connect_prometheus, setup_environment *)

\* connect_prometheus on self.prometheus = handle: the result, the calls and
\* self.prometheus afterwards.  env.url is what self.get_prometheus_url()
\* gives, env.ctor whether PrometheusConnect(url=...) raises.
connect_prometheus(handle, env) ==
    IF env.url.raised
    THEN [result |-> Return(FALSE), calls |-> <<"get_prometheus_url">>,
          prometheus |-> handle]
    ELSE IF env.ctor
    THEN [result |-> Return(FALSE),
          calls |-> <<"get_prometheus_url", "PrometheusConnect">>,
          prometheus |-> handle]
    ELSE [result |-> Return(TRUE),
          calls |-> <<"get_prometheus_url", "PrometheusConnect">>,
          prometheus |-> <<env.url.value[1]>>]

\* subprocess.run(['minikube', 'status']): raises, or completes with stdout.
StatusRuns ==
    {[raises |-> TRUE, stdout |-> <<>>],
     [raises |-> FALSE, stdout |-> <<"host:", "Running", "\n">>],
     [raises |-> FALSE, stdout |-> <<"host:", "Stopped", "\n">>]}

\* 'Running' in result.stdout
Contains(stdout, word) == \E i \in DOMAIN stdout : stdout[i] = word

\* The try block of setup_environment on self = [prometheus, k8s_config]: the
\* result, the calls, self afterwards, and what was established on the way:
\* cluster (load_kube_config returned), monitoring (connect_prometheus
\* returned True).
setup_environment_try(self, env) ==
    LET raised(cs) ==
            [result |-> Raise, calls |-> cs,
             prometheus |-> self.prometheus, k8s_config |-> self.k8s_config,
             cluster |-> FALSE, monitoring |-> FALSE]
        start == IF Contains(env.status.stdout, "Running")
                 THEN <<"minikube status">>
                 ELSE <<"minikube status", "minikube start">>
    IN  IF env.status.raises THEN raised(<<"minikube status">>)
        ELSE IF ~Contains(env.status.stdout, "Running") /\ env.start
        THEN raised(start)
        ELSE IF env.kube
        THEN raised(Append(start, "load_kube_config"))
        ELSE LET c == connect_prometheus(self.prometheus, env)
             IN  [result |-> Return(TRUE),
                  calls |-> Append(start, "load_kube_config") \o c.calls,
                  prometheus |-> c.prometheus, k8s_config |-> TRUE,
                  cluster |-> TRUE, monitoring |-> c.result.value[1]]

setup_environment(self, env) ==
    LET r == setup_environment_try(self, env)
    IN  IF r.result.raised THEN [r EXCEPT !.result = Return(FALSE)] ELSE r

\* The outcomes of the calls connect_prometheus and setup_environment can
\* make.  The boolean fields say whether the call raises: start (minikube
\* start), kube (config.load_kube_config()), ctor (PrometheusConnect).
SetupOutcomes ==
    [status : StatusRuns, start : BOOLEAN, kube : BOOLEAN,
     url : UrlResults, ctor : BOOLEAN]

SetupMade(env, cs) ==
    /\ Count("minikube status", cs) = 0 =>
           env.status = [raises |-> TRUE, stdout |-> <<>>]
    /\ Count("minikube start", cs) = 0 => env.start
    /\ Count("load_kube_config", cs) = 0 => env.kube
    /\ Count("get_prometheus_url", cs) = 0 => env.url = Return(FallbackUrl)
    /\ Count("PrometheusConnect", cs) = 0 => env.ctor

ConnectEnvs ==
    {e : e \in {env \in SetupOutcomes :
                    SetupMade(env, connect_prometheus(<<>>, env).calls)}}

SetupEnvs ==
    {e : e \in {env \in SetupOutcomes :
                    SetupMade(env,
                        setup_environment_try(
                            [prometheus |-> <<>>, k8s_config |-> FALSE],
                            env).calls)}}

-----------------------------------------------------------------------------
(* Actions of the resolver *)

Call_get_prometheus_url ==
    \E env \in UrlEnvs :
        LET r == get_prometheus_url(env)
        IN  /\ last' = [op |-> "get_prometheus_url", env |-> env,
                        result |-> r.result, calls |-> r.calls]
            /\ UNCHANGED <<prometheus, k8s_config, polls, converged, lookups>>

Call_connect_prometheus ==
    \E env \in ConnectEnvs :
        LET r == connect_prometheus(prometheus, env)
        IN  /\ prometheus' = r.prometheus
            /\ last' = [op |-> "connect_prometheus", env |-> env,
                        result |-> r.result, calls |-> r.calls]
            /\ UNCHANGED <<k8s_config, polls, converged, lookups>>

Call_setup_environment ==
    \E env \in SetupEnvs :
        LET r == setup_environment(
                     [prometheus |-> prometheus, k8s_config |-> k8s_config], env)
        IN  /\ prometheus' = r.prometheus
            /\ k8s_config' = r.k8s_config
            /\ last' = [op |-> "setup_environment", env |-> env,
                        result |-> r.result, calls |-> r.calls,
                        cluster |-> r.cluster, monitoring |-> r.monitoring]
            /\ UNCHANGED <<polls, converged, lookups>>

-----------------------------------------------------------------------------
(* Convergence check: check_deployment_status *)

\* json.loads of `kubectl get deployment my-docker-app -o json`: unparsable,
\* or a document with status.readyReplicas and spec.replicas, each present
\* or missing.
DeploymentDocs ==
    {[parses |-> FALSE, readyReplicas |-> <<>>, replicas |-> <<>>]}
        \cup [parses : {TRUE}, readyReplicas : Opt(0..MaxReplicas),
              replicas : Opt(0..MaxReplicas)]

\* subprocess.run(['kubectl', 'get', 'deployment', ...]): raises, fails
\* with a non-zero code, or completes with stdout.
DeploymentRuns ==
    {[raises |-> TRUE, returncode |-> 1,
      stdout |-> [parses |-> FALSE, readyReplicas |-> <<>>, replicas |-> <<>>]],
     [raises |-> FALSE, returncode |-> 1,
      stdout |-> [parses |-> FALSE, readyReplicas |-> <<>>, replicas |-> <<>>]]}
        \cup [raises : {FALSE}, returncode : {0}, stdout : DeploymentDocs]

\* json.loads of `kubectl get svc my-docker-service -o json`: unparsable, or
\* a document with spec.ports, each port entry with its nodePort or none.
ServiceDocs ==
    {[parses |-> FALSE, ports |-> <<>>]}
        \cup [parses : {TRUE},
              ports : {<<>>, << <<>> >>, << <<30080>> >>,
                       << <<30080>>, <<30443>> >>, << <<>>, <<30443>> >>}]

ServiceRuns ==
    {[raises |-> TRUE, returncode |-> 1,
      stdout |-> [parses |-> FALSE, ports |-> <<>>]],
     [raises |-> FALSE, returncode |-> 1,
      stdout |-> [parses |-> FALSE, ports |-> <<>>]]}
        \cup [raises : {FALSE}, returncode : {0}, stdout : ServiceDocs]

\* data['status'].get('readyReplicas', 0)
ReadyOf(data) ==
    IF data.readyReplicas = <<>> THEN 0 ELSE data.readyReplicas[1]

\* A comparison a bug would make: at least as many ready as declared.
ReadyAtLeastTotal(ready, total) == ready >= total

\* ready == total
ReadyEqualsTotal(ready, total) == ready = total

\* A port entry a bug would take: the last one of the service.
LastPortEntry(ports) == ports[Len(ports)]

\* svc_data['spec']['ports'][0]
FirstPortEntry(ports) == ports[1]

\* The poll observes readyReplicas equal to the declared replica count: the
\* status query succeeds, its output carries both counts, and they agree.
Observes(run) ==
    /\ ~run.raises
    /\ run.returncode = 0
    /\ run.stdout.parses
    /\ run.stdout.replicas # <<>>
    /\ ReadyOf(run.stdout) = run.stdout.replicas[1]

\* The try block of check_deployment_status: the result, the calls, and the
\* endpoint it reports ("Доступно по адресу: http://{ip}:{node_port}").
check_deployment_status_try(env) ==
    LET d == env.deployment
        s == env.service
        out(r, cs, e) == [result |-> r, calls |-> cs, endpoint |-> e]
        c1 == <<"kubectl get deployment">>
        c2 == <<"kubectl get deployment", "kubectl get svc">>
        c3 == <<"kubectl get deployment", "kubectl get svc", "minikube ip">>
    IN  IF d.raises THEN out(Raise, c1, <<>>)
        ELSE IF d.returncode # 0 THEN out(Return(FALSE), c1, <<>>)
        ELSE IF ~d.stdout.parses \/ d.stdout.replicas = <<>>
        THEN out(Raise, c1, <<>>)
        ELSE LET ready == ReadyOf(d.stdout)
                 total == d.stdout.replicas[1]
             IN  IF ~ReadyEqualsTotal(ready, total)
                 THEN out(Return(ReadyEqualsTotal(ready, total)), c1, <<>>)
                 ELSE IF s.raises THEN out(Raise, c2, <<>>)
                 ELSE IF s.returncode # 0
                 THEN out(Return(ReadyEqualsTotal(ready, total)), c2, <<>>)
                 ELSE IF \/ ~s.stdout.parses
                         \/ s.stdout.ports = <<>>
                         \/ FirstPortEntry(s.stdout.ports) = <<>>
                 THEN out(Raise, c2, <<>>)
                 ELSE out(Return(ReadyEqualsTotal(ready, total)), c3,
                          <<Url(get_minikube_ip(env.ip),
                                FirstPortEntry(s.stdout.ports)[1])>>)

\* check_deployment_status without its except clause.
check_deployment_status_noexcept(env) == check_deployment_status_try(env)

check_deployment_status(env) ==
    LET r == check_deployment_status_try(env)
    IN  IF r.result.raised THEN [r EXCEPT !.result = Return(FALSE)] ELSE r

-----------------------------------------------------------------------------
(* Manifest applier and cycle: deploy_application *)

\* subprocess.run(['kubectl', 'apply', '-f', ...]): raises, or completes
\* with a return code.
ApplyRuns ==
    {[raises |-> TRUE, returncode |-> 1],
     [raises |-> FALSE, returncode |-> 0],
     [raises |-> FALSE, returncode |-> 1]}

\* The try block of deploy_application: the result, the calls, and the
\* status check it made, if it got there.
deploy_application_try(env) ==
    LET out(r, cs, c) == [result |-> r, calls |-> cs, check |-> c]
        c1 == <<"fix_deployment_file">>
        c2 == Append(c1, "docker build")
        c3 == Append(c2, "minikube image load")
        c4 == Append(c3, "kubectl apply deployment")
        c5 == Append(c4, "kubectl apply service")
    IN  IF env.fix THEN out(Raise, c1, <<>>)
        ELSE IF env.build THEN out(Raise, c2, <<>>)
        ELSE IF env.load THEN out(Raise, c3, <<>>)
        ELSE IF env.applyDeployment.raises THEN out(Raise, c4, <<>>)
        ELSE IF env.applyService.raises THEN out(Raise, c5, <<>>)
        ELSE LET c == check_deployment_status(env)
             IN  IF c.result.raised
                 THEN out(Raise, c5 \o c.calls, <<c>>)
                 ELSE out(Return(TRUE), c5 \o c.calls, <<c>>)

deploy_application(env) ==
    LET r == deploy_application_try(env)
    IN  IF r.result.raised THEN [r EXCEPT !.result = Return(FALSE)] ELSE r

\* The outcomes of the calls check_deployment_status and deploy_application
\* can make.  The boolean fields say whether the call raises: fix
\* (fix_deployment_file, which writes a file), build (docker build), load
\* (minikube image load), whose return codes are not read.
DeployOutcomes ==
    [fix : BOOLEAN, build : BOOLEAN, load : BOOLEAN,
     applyDeployment : ApplyRuns, applyService : ApplyRuns,
     deployment : DeploymentRuns, service : ServiceRuns, ip : IpRuns]

DeployMade(env, cs) ==
    /\ Count("fix_deployment_file", cs) = 0 => env.fix
    /\ Count("docker build", cs) = 0 => env.build
    /\ Count("minikube image load", cs) = 0 => env.load
    /\ Count("kubectl apply deployment", cs) = 0 => env.applyDeployment.raises
    /\ Count("kubectl apply service", cs) = 0 => env.applyService.raises
    /\ Count("kubectl get deployment", cs) = 0 => env.deployment.raises
    /\ Count("kubectl get svc", cs) = 0 => env.service.raises
    /\ Count("minikube ip", cs) = 0 => env.ip.raises

CheckEnvs ==
    {e : e \in {env \in DeployOutcomes :
                    DeployMade(env, check_deployment_status_try(env).calls)}}

DeployEnvs ==
    {e : e \in {env \in DeployOutcomes :
                    DeployMade(env, deploy_application_try(env).calls)}}

\* The endpoint resolution calls (service lookup, node address lookup) in
\* the call trace cs.
Lookups(cs) == Count("kubectl get svc", cs) + Count("minikube ip", cs)

Call_check_deployment_status ==
    /\ polls < MaxPolls
    /\ \E env \in CheckEnvs :
           LET r == check_deployment_status(env)
           IN  /\ last' = [op |-> "check_deployment_status", env |-> env,
                           result |-> r.result, calls |-> r.calls,
                           endpoint |-> r.endpoint]
               /\ polls' = polls + 1
               /\ converged' = (converged \/ Observes(env.deployment))
               /\ lookups' = lookups + Lookups(r.calls)
    /\ UNCHANGED <<prometheus, k8s_config>>

Call_deploy_application ==
    /\ polls < MaxPolls
    /\ \E env \in DeployEnvs :
           LET r == deploy_application(env)
               polled == Count("kubectl get deployment", r.calls) > 0
           IN  /\ last' = [op |-> "deploy_application", env |-> env,
                           result |-> r.result, calls |-> r.calls,
                           check |-> r.check]
               /\ polls' = IF polled THEN polls + 1 ELSE polls
               /\ converged' =
                      (converged \/ (polled /\ Observes(env.deployment)))
               /\ lookups' = lookups + Lookups(r.calls)
    /\ UNCHANGED <<prometheus, k8s_config>>

-----------------------------------------------------------------------------
(* Metrics aggregator: get_prometheus_metrics *)

\* The keys of the metrics dict, in the order of their queries.
Fields == <<"cpu", "memory", "disk", "pods">>

\* A value of the metrics dict: a string (a sample's value, "N/A") or a
\* number (a count).
Str(s) == [type |-> "str", str |-> s, int |-> 0]

Num(n) == [type |-> "int", str |-> "", int |-> n]

\* One series of a query's result; its 'value' is [timestamp, "value"].
Sample(v) == [value |-> <<1700000000, v>>]

\* self.prometheus.custom_query(...): raises (a timeout, a transport
\* failure), or returns the list of series, empty on no data.
QueryRuns ==
    {[raises |-> TRUE, samples |-> <<>>],
     [raises |-> FALSE, samples |-> <<>>],
     [raises |-> FALSE, samples |-> <<Sample("0")>>],
     [raises |-> FALSE,
      samples |-> <<Sample("42.1"), Sample("5.3"), Sample("7")>>]}

\* cpu_result[0]['value'][1] if cpu_result else "N/A"; the same for memory
\* and disk.
FirstValue(samples) ==
    IF samples # <<>> THEN Str(samples[1].value[2]) ELSE Str("N/A")

\* len(pods_result) if pods_result else 0
PodCount(samples) == IF samples # <<>> THEN Num(Len(samples)) ELSE Num(0)

\* The dict with no keys.
EmptyDict == [k \in {} |-> Str("")]

\* The try block of get_prometheus_metrics: the queries in order, the first
\* one to raise ending the block.
get_prometheus_metrics_try(env) ==
    LET c1 == <<"custom_query cpu">>
        c2 == Append(c1, "custom_query memory")
        c3 == Append(c2, "custom_query disk")
        c4 == Append(c3, "custom_query pods")
    IN  IF env.cpu.raises THEN [result |-> Raise, calls |-> c1]
        ELSE IF env.memory.raises THEN [result |-> Raise, calls |-> c2]
        ELSE IF env.disk.raises THEN [result |-> Raise, calls |-> c3]
        ELSE IF env.pods.raises THEN [result |-> Raise, calls |-> c4]
        ELSE [result |->
                  Return([cpu |-> FirstValue(env.cpu.samples),
                          memory |-> FirstValue(env.memory.samples),
                          disk |-> FirstValue(env.disk.samples),
                          pods |-> PodCount(env.pods.samples)]),
              calls |-> c4]

\* get_prometheus_metrics on self.prometheus = handle.
get_prometheus_metrics(handle, env) ==
    IF handle = <<>> THEN [result |-> Return(EmptyDict), calls |-> <<>>]
    ELSE LET r == get_prometheus_metrics_try(env)
         IN  IF r.result.raised
             THEN [r EXCEPT !.result = Return(EmptyDict)]
             ELSE r

MetricsOutcomes ==
    [cpu : QueryRuns, memory : QueryRuns, disk : QueryRuns, pods : QueryRuns]

MetricsMade(env, cs) ==
    /\ Count("custom_query cpu", cs) = 0 => env.cpu.raises
    /\ Count("custom_query memory", cs) = 0 => env.memory.raises
    /\ Count("custom_query disk", cs) = 0 => env.disk.raises
    /\ Count("custom_query pods", cs) = 0 => env.pods.raises

\* With a handle, and with none.
MetricsEnvs ==
    {e : e \in {env \in MetricsOutcomes :
                    MetricsMade(env, get_prometheus_metrics_try(env).calls)}}

NoQueries == [f \in {"cpu", "memory", "disk", "pods"} |->
                 [raises |-> TRUE, samples |-> <<>>]]

Call_get_prometheus_metrics ==
    /\ \E env \in (IF prometheus = <<>> THEN {NoQueries} ELSE MetricsEnvs) :
           LET r == get_prometheus_metrics(prometheus, env)
           IN  last' = [op |-> "get_prometheus_metrics", env |-> env,
                        connected |-> prometheus # <<>>,
                        result |-> r.result, calls |-> r.calls]
    /\ UNCHANGED <<prometheus, k8s_config, polls, converged, lookups>>

\* __init__: self.k8s_config = None, self.prometheus = None; nothing polled.
Init ==
    /\ prometheus = <<>>
    /\ k8s_config = FALSE
    /\ last = [op |-> "__init__"]
    /\ polls = 0
    /\ converged = FALSE
    /\ lookups = 0

NextResolver ==
    \/ Call_get_prometheus_url
    \/ Call_connect_prometheus
    \/ Call_setup_environment

\* The resolver on its own: the operations that read the services and set
\* self.prometheus and self.k8s_config.
SpecResolver == Init /\ [][NextResolver]_vars

NextMetrics ==
    \/ Call_connect_prometheus
    \/ Call_get_prometheus_metrics

\* The aggregator on its own, with the one operation that sets the handle
\* it reads.
SpecMetrics == Init /\ [][NextMetrics]_vars

NextDeploy ==
    \/ Call_check_deployment_status
    \/ Call_deploy_application

\* The applier and the convergence check on their own: they read and write
\* no field of self.
SpecDeploy == Init /\ [][NextDeploy]_vars

\* Every operation of the monitor, in any order (the dashboard's menu).
Next ==
    \/ Call_get_prometheus_url
    \/ Call_connect_prometheus
    \/ Call_setup_environment
    \/ Call_check_deployment_status
    \/ Call_deploy_application
    \/ Call_get_prometheus_metrics

Spec == Init /\ [][Next]_vars

-----------------------------------------------------------------------------
(* Properties *)

\* The last operation was get_prometheus_metrics with a handle connected.
MetricsFetched == last.op = "get_prometheus_metrics" /\ last.connected

FieldSet == {Fields[i] : i \in DOMAIN Fields}

\* Field f's query was made and raised.
QueryFailed(f) ==
    /\ Count("custom_query " \o f, last.calls) > 0
    /\ last.env[f].raises

\* C1: with a handle connected, when one of the four queries raises, all
\* four queries are still made and the snapshot has all four fields: the
\* failed one is the unavailable marker "N/A", and every query that returned
\* samples has its value in the snapshot.
C1_OneFailureKeepsTheRest ==
    (MetricsFetched /\ \E f \in FieldSet : QueryFailed(f)) =>
        LET m == last.result.value[1]
        IN  /\ Len(last.calls) = Len(Fields)
            /\ DOMAIN m = FieldSet
            /\ \A f \in FieldSet :
                   /\ QueryFailed(f) => m[f] = Str("N/A")
                   /\ (~last.env[f].raises /\ last.env[f].samples # <<>>) =>
                          m[f] # Str("N/A")

\* C2: when no query raises, every field whose query returned no series is
\* the unavailable marker "N/A" in the snapshot, and not the number zero.
C2_NoSeriesIsUnavailable ==
    (MetricsFetched /\ \A f \in FieldSet : ~last.env[f].raises) =>
        \A f \in FieldSet :
            last.env[f].samples = <<>> =>
                /\ last.result.value[1][f] = Str("N/A")
                /\ last.result.value[1][f] # Num(0)

\* The last operation ran a status check: check_deployment_status itself,
\* or deploy_application up to its step 5.
Checked ==
    \/ last.op = "check_deployment_status"
    \/ last.op = "deploy_application" /\ last.check # <<>>

\* That check: its result, its calls, the endpoint it reported.
TheCheck ==
    IF last.op = "check_deployment_status"
    THEN [result |-> last.result, calls |-> last.calls,
          endpoint |-> last.endpoint]
    ELSE last.check[1]

\* C3: as long as no status poll has observed readyReplicas equal to the
\* declared replica count, every check ends not converged (returns False,
\* raises nothing), no service lookup and no node address lookup has been
\* made, and no endpoint is reported.
C3_NeverConvergedNeverResolves ==
    ~converged =>
        /\ lookups = 0
        /\ Checked =>
               /\ TheCheck.result = Return(FALSE)
               /\ TheCheck.endpoint = <<>>

\* MaxPolls polls, none of which observed equality, the last one a status
\* that was read and did not agree.
C3_Witness ==
    /\ polls = MaxPolls
    /\ ~converged
    /\ last.op = "check_deployment_status"
    /\ ~last.env.deployment.raises
    /\ last.env.deployment.returncode = 0
    /\ last.env.deployment.stdout.replicas # <<>>
    /\ ReadyOf(last.env.deployment.stdout) < last.env.deployment.stdout.replicas[1]

\* The service lookup gives a node port: it returns code 0 and its output
\* parses to a service whose first port entry has a nodePort.
Resolvable(run) ==
    /\ ~run.raises
    /\ run.returncode = 0
    /\ run.stdout.parses
    /\ run.stdout.ports # <<>>
    /\ run.stdout.ports[1] # <<>>

C5_ConvergedIffReadyEqualsDeclared ==
    Checked =>
        (TheCheck.result = Return(TRUE) <=> Observes(last.env.deployment))

\* The status query fails: the call raises, kubectl returns a non-zero code,
\* or its output does not parse.
StatusQueryFails(run) ==
    \/ run.raises
    \/ run.returncode # 0
    \/ ~run.stdout.parses

\* C6: a failed status query makes the check return False without raising,
\* and a deploy_application that reached the check runs to its end (its
\* last statement, return True) instead of being aborted.
C6_FailedPollDoesNotAbort ==
    (Checked /\ StatusQueryFails(last.env.deployment)) =>
        /\ TheCheck.result = Return(FALSE)
        /\ last.op = "deploy_application" => last.result = Return(TRUE)

\* A deploy_application whose status query raised.
C6_Witness ==
    /\ last.op = "deploy_application"
    /\ last.check # <<>>
    /\ last.env.deployment.raises
    /\ last.result = Return(TRUE)

\* No listed service has a node port on its first port entry.
NoAssignedPort(items) ==
    \A i \in DOMAIN items :
        items[i].ports = <<>> \/ items[i].ports[1] = NoNodePort

\* C7: get_prometheus_url never raises, neither called directly nor from
\* connect_prometheus, and returns the fallback http://localhost:9090 when
\* loading the configuration or listing the services fails, when no service
\* matches, and when no matching service has a node port.
C7_FallbackNeverRaises ==
    /\ last.op = "get_prometheus_url" =>
           /\ ~last.result.raised
           /\ (\/ last.env.urlkube
               \/ last.env.listing.raises
               \/ NoAssignedPort(last.env.listing.items)) =>
                  last.result = Return(Url(<<"localhost">>, 9090))
    /\ last.op \in {"connect_prometheus", "setup_environment"} =>
           ~last.env.url.raised

\* The listing call raised and the fallback was returned.
C7_Witness ==
    /\ last.op = "get_prometheus_url"
    /\ ~last.env.urlkube
    /\ last.env.listing.raises
    /\ last.result = Return(Url(<<"localhost">>, 9090))

\* Both manifests were applied (both kubectl apply calls completed).
BothApplied ==
    /\ last.op = "deploy_application"
    /\ ~last.env.applyDeployment.raises
    /\ ~last.env.applyService.raises

\* C8: when either kubectl apply fails (a non-zero return code),
\* deploy_application does not report success.
C8_FailedApplyIsReported ==
    (BothApplied /\ (\/ last.env.applyDeployment.returncode # 0
                     \/ last.env.applyService.returncode # 0)) =>
        last.result # Return(TRUE)

\* C9: setup_environment returns True if and only if both the cluster
\* connection (load_kube_config) and the monitoring connection
\* (connect_prometheus) were established.
C9_SetupSucceedsIffBothConnected ==
    last.op = "setup_environment" =>
        (last.result = Return(TRUE) <=> (last.cluster /\ last.monitoring))

\* The services were listed.
Listed ==
    /\ last.op = "get_prometheus_url"
    /\ ~last.env.urlkube
    /\ ~last.env.listing.raises

\* C10 as claimed: the endpoint is resolved from the first listed service
\* only: its first port's node port with the node address when it has one,
\* the fallback otherwise; a later service never determines the result.
C10_FirstServiceOnly ==
    Listed =>
        LET items == last.env.listing.items
        IN  last.result =
                IF items # <<>> /\ ~NoAssignedPort(<<items[1]>>)
                THEN Return(Url(get_minikube_ip(last.env.ip),
                                items[1].ports[1]))
                ELSE Return(Url(<<"localhost">>, 9090))

\* C10, amended: the endpoint is resolved from the first listed service
\* whose first port entry has a node port: that node port with the node
\* address; services after that one never determine the result, and the
\* fallback is returned when no listed service has such a port.
C10_FirstServiceWithNodePort ==
    Listed =>
        LET items == last.env.listing.items
            W == {i \in DOMAIN items : ~NoAssignedPort(<<items[i]>>)}
        IN  IF W = {}
            THEN last.result = Return(Url(<<"localhost">>, 9090))
            ELSE \E i \in W :
                    /\ \A j \in W : i <= j
                    /\ last.result =
                           Return(Url(get_minikube_ip(last.env.ip),
                                      items[i].ports[1]))

\* Two services listed, the first without a node port on its first port
\* entry, the endpoint resolved from the second.
C10_Witness ==
    /\ Listed
    /\ Len(last.env.listing.items) = 2
    /\ last.env.listing.items[1].ports # <<>>
    /\ NoAssignedPort(<<last.env.listing.items[1]>>)
    /\ ~NoAssignedPort(<<last.env.listing.items[2]>>)
    /\ last.result.value[1].port = last.env.listing.items[2].ports[1]

====
